---- MODULE Spec2Model ----
(***************************************************************************)
(* Model of the Weston Wolverine Brief pipeline:                           *)
(*   scraper.py          fetch_crime_data, fetch_permit_summary,           *)
(*                       save_dataframe, main                              *)
(*   generate_digest.py  load_data, summarise_crimes, summarise_permits,   *)
(*                       main                                              *)
(*                                                                         *)
(* Spec        : scraper runs (main) against a feature-query service that  *)
(*               answers every page request with a failure or a page of    *)
(*               rows, and a bulk CSV resource.  A crime row is identified *)
(*               by the run that fetched it and its position in the        *)
(*               service's ordering.                                       *)
(* SpecFetch   : calls of fetch_crime_data with every max_records.         *)
(* SpecPermits : calls of fetch_permit_summary with every CSV, prefix and  *)
(*               row cap.                                                  *)
(* SpecDigest  : the snapshot files written by the scraper and read by the *)
(*               digest, with every field of every row as the CSV text     *)
(*               that to_csv writes and read_csv parses.                   *)
(***************************************************************************)
EXTENDS Integers, Sequences, FiniteSets, TLC

VARIABLES
  \* scraper.py
  pc,            \* position of the scraper process
  caller,        \* who called fetch_crime_data: "main", "direct" or "none"
  run,           \* number of scraper runs started so far
  max_records,   \* argument of the current fetch_crime_data call
  records,       \* local list `records` of fetch_crime_data
  offset,        \* local `offset`
  requests,      \* resultOffset of every page request issued by this call
  sizes,         \* len(feats) of every page received by this call
  status,        \* outcome of the last page request: "none", "ok", "error"
  returned,      \* [ok, df]: whether fetch_crime_data has returned, and the DataFrame
  downloads,     \* number of bulk CSV downloads issued by this run
  writes,        \* snapshot names written by this run
  crimesFile,    \* data/crimes.csv (NoFile when absent)
  permitsFile,   \* data/permit_summary.csv (NoFile when absent)
  \* fetch_permit_summary
  remote_csv,    \* the remote CSV the current call reads
  arg_prefix,    \* argument postal_prefix of the current call
  arg_rows,      \* argument rows of the current call
  summary,       \* the DataFrame it returns
  \* generate_digest.py
  dpc,           \* position of the digest process
  saved,         \* the DataFrame last handed to save_dataframe, and its name
  crimes,        \* DataFrame `crimes` of load_data / main
  permits,       \* DataFrame `permits` of load_data / main
  top_n,         \* argument top_n of the current summarise_permits call
  top_permits,   \* value returned by summarise_permits
  today,         \* datetime.date.today() of the digest run
  bundle         \* the arguments main passes to template.render

scraperVars == <<pc, caller, run, max_records, records, offset, requests, sizes,
                 status, returned, downloads, writes>>
fileVars    == <<crimesFile, permitsFile>>
permitVars  == <<remote_csv, arg_prefix, arg_rows, summary>>
digestVars  == <<dpc, saved, crimes, permits, top_n, top_permits, today, bundle>>
vars == <<scraperVars, fileVars, permitVars, digestVars>>

-----------------------------------------------------------------------------
(* Bounds *)
MaxRuns    == 2    \* scraper runs explored
MaxPages   == 3    \* the server's data ends by the MaxPages-th page of a call
MaxCsvRows == 3    \* data rows of the remote CSV, fetch_permit_summary called directly
MaxRunCsvRows == 1 \* data rows of the remote CSV during a scraper run
MaxEvents     == 2 \* crime events of a snapshot the digest reads
MaxTieEntries == 2 \* entries of a permit summary drawn from TiedEntries
MaxMoreEntries == 3 \* entries that follow ExampleSummary in a longer permit summary

(* Program constants *)
per_page           == 2000
DefaultMaxRecords  == 10000
DefaultRows        == 50000
DefaultTopN        == 5

None   == "None"
NoFile == [exists |-> FALSE, header |-> <<>>, rows |-> <<>>]   \* no such file

PageSizes      == {0, 1, 500, 1999, per_page}   \* direct calls
RunPageSizes   == {0, 500, per_page}            \* scraper runs
MaxRecordsArgs == {0, 1, 1999, 2000, 2001, 4500, DefaultMaxRecords}

Min(a, b) == IF a < b THEN a ELSE b

-----------------------------------------------------------------------------
(* Text and cells.  Text is a sequence of characters.  A cell of a         *)
(* DataFrame is [t, n, s]: its Python type, its number (int: the value;    *)
(* datetime: epoch milliseconds, UTC; date: days since 1970-01-01) and its *)
(* text (str).                                                             *)
DigitChars == <<"0", "1", "2", "3", "4", "5", "6", "7", "8", "9">>

StrCell(s)      == [t |-> "str",      n |-> 0, s |-> s]
IntCell(n)      == [t |-> "int",      n |-> n, s |-> <<>>]
DatetimeCell(n) == [t |-> "datetime", n |-> n, s |-> <<>>]
DateCell(n)     == [t |-> "date",     n |-> n, s |-> <<>>]
NaN             == [t |-> "nan",      n |-> 0, s |-> <<>>]

Txt_M9N    == <<"M", "9", "N">>
Txt_M9N2K5 == <<"M", "9", "N", "2", "K", "5">>
Txt_M6H1A1 == <<"M", "6", "H", "1", "A", "1">>
Txt_nan    == <<"n", "a", "n">>
Txt_NA     == <<"N", "A">>
Txt_Deck   == <<"D", "e", "c", "k">>
Txt_Fence  == <<"F", "e", "n", "c", "e">>
Txt_Roof   == <<"R", "o", "o", "f">>
Txt_Assault == <<"A", "s", "s", "a", "u", "l", "t">>
Txt_Robbery == <<"R", "o", "b", "b", "e", "r", "y">>
Txt_Weston  == <<"W", "e", "s", "t", "o", "n">>

\* str.startswith
StartsWith(s, prefix) ==
  /\ Len(s) >= Len(prefix)
  /\ SubSeq(s, 1, Len(prefix)) = prefix

\* str(int) for a non-negative int
RECURSIVE FormatInt(_)
FormatInt(n) ==
  IF n < 10 THEN <<DigitChars[n + 1]>>
  ELSE Append(FormatInt(n \div 10), DigitChars[(n % 10) + 1])

\* zero-padded two-digit field of a date or time
Two(n) == <<DigitChars[(n \div 10) + 1], DigitChars[(n % 10) + 1]>>

IsDigit(c) == \E k \in 1..10 : DigitChars[k] = c
DigitVal(c) == (CHOOSE k \in 1..10 : DigitChars[k] = c) - 1
IsNumeric(s) == Len(s) > 0 /\ \A i \in 1..Len(s) : IsDigit(s[i])

RECURSIVE ParseInt(_)
ParseInt(s) ==
  IF Len(s) = 0 THEN 0
  ELSE 10 * ParseInt(SubSeq(s, 1, Len(s) - 1)) + DigitVal(s[Len(s)])

(* Calendar, on the range the model's timestamps live in: 1969-12-01 to   *)
(* 1970-01-31, i.e. days -31..30 since the epoch.                          *)
MsPerSecond == 1000
MsPerDay    == 86400000
TorontoUtcOffsetMs == 18000000   \* America/Toronto in January: UTC-5

DateIso(d) ==
  IF d < 0
    THEN <<"1", "9", "6", "9", "-", "1", "2", "-">> \o Two(d + 32)
    ELSE <<"1", "9", "7", "0", "-", "0", "1", "-">> \o Two(d + 1)

\* str(Timestamp) of a tz-aware UTC timestamp with no sub-second part
TimestampText(ms) ==
  LET d   == ms \div MsPerDay
      sec == (ms % MsPerDay) \div MsPerSecond
  IN  DateIso(d) \o <<" ">> \o Two(sec \div 3600) \o <<":">>
        \o Two((sec % 3600) \div 60) \o <<":">> \o Two(sec % 60)
        \o <<"+", "0", "0", ":", "0", "0">>

IsoDays(s) ==
  IF SubSeq(s, 1, 4) = <<"1", "9", "6", "9">>
    THEN ParseInt(SubSeq(s, 9, 10)) - 32
    ELSE ParseInt(SubSeq(s, 9, 10)) - 1

\* the parse read_csv applies to a parse_dates column
ParseTimestamp(s) ==
  IsoDays(s) * MsPerDay
    + (ParseInt(SubSeq(s, 12, 13)) * 3600 + ParseInt(SubSeq(s, 15, 16)) * 60
         + ParseInt(SubSeq(s, 18, 19))) * MsPerSecond

\* OCC_DATE.dt.tz_convert("America/Toronto").dt.date
TorontoDate(ms) == (ms - TorontoUtcOffsetMs) \div MsPerDay


-----------------------------------------------------------------------------
(* DataFrames and CSV files.                                               *)
(* A DataFrame is [columns, rows]: the column names in order and the rows, *)
(* each a function from column name to cell.  A CSV file is [header, rows] *)
(* with every cell as text.                                                *)
Range(f) == {f[i] : i \in DOMAIN f}
SeqsUpTo(S, n) == UNION {[1..k -> S] : k \in 0..n}

\* the increasing enumeration of a finite set of integers
RECURSIVE SortedIdx(_)
SortedIdx(S) ==
  IF S = {} THEN <<>>
  ELSE LET m == CHOOSE x \in S : \A y \in S : x <= y
       IN  <<m>> \o SortedIdx(S \ {m})

\* df[mask]: the rows at the kept positions, in their order
Take(seq, idx) == LET order == SortedIdx(idx) IN [k \in DOMAIN order |-> seq[order[k]]]

DataFrame(columns, rows) == [columns |-> columns, rows |-> rows]
Empty(df) == Len(df.rows) = 0 \/ Len(df.columns) = 0

\* what to_csv writes for one cell (NaN: the empty field)
CellText(c) ==
  CASE c.t = "str"      -> c.s
    [] c.t = "int"      -> FormatInt(c.n)
    [] c.t = "datetime" -> TimestampText(c.n)
    [] c.t = "date"     -> DateIso(c.n)
    [] OTHER            -> <<>>

\* DataFrame.to_csv(path, index=False)
to_csv(df) ==
  [exists |-> TRUE,
   header |-> df.columns,
   rows   |-> [i \in DOMAIN df.rows |->
                 [c \in Range(df.columns) |-> CellText(df.rows[i][c])]]]

\* the fields read_csv reads as missing (subset of its default na_values)
NaTexts == {<<>>, Txt_NA, Txt_nan}

\* what a call gives: a DataFrame, or the exception it raised
Returns(df)    == [raised |-> "none", df |-> df]
EmptyDataError == [raised |-> "EmptyDataError", df |-> DataFrame(<<>>, <<>>)]

\* read_csv's type of a column: date if listed in parse_dates, int if every
\* field is a number, float if the fields are numbers and missing values,
\* object (text) otherwise
ColumnType(texts, isDate) ==
  LET present == {i \in DOMAIN texts : texts[i] \notin NaTexts}
  IN  IF isDate THEN "datetime"
      ELSE IF \E i \in present : ~IsNumeric(texts[i]) THEN "object"
      ELSE IF present = DOMAIN texts /\ present # {} THEN "int"
      ELSE IF DOMAIN texts = {} THEN "object"
      ELSE "float"

ParseCell(text, type) ==
  IF text \in NaTexts THEN NaN
  ELSE CASE type = "datetime" -> DatetimeCell(ParseTimestamp(text))
         [] type = "int"      -> IntCell(ParseInt(text))
         [] type = "float"    -> [t |-> "float", n |-> ParseInt(text), s |-> <<>>]
         [] OTHER             -> StrCell(text)

\* the first n of a sequence (n >= 0)
head_rows(seq, n) == SubSeq(seq, 1, Min(n, Len(seq)))

\* pandas.read_csv(file, nrows=nrows, parse_dates=parse_dates)
read_csv(file, nrows, parse_dates) ==
  IF Len(file.header) = 0 THEN EmptyDataError
  ELSE
    LET lines == head_rows(file.rows, nrows)
        type(c) == ColumnType([i \in DOMAIN lines |-> lines[i][c]], c \in parse_dates)
    IN  Returns(DataFrame(file.header,
                  [i \in DOMAIN lines |->
                     [c \in Range(file.header) |-> ParseCell(lines[i][c], type(c))]]))

\* Series.astype(str) of an object column
AsTypeStr(c) ==
  CASE c.t = "str" -> c.s
    [] c.t = "int" -> FormatInt(c.n)
    [] OTHER       -> Txt_nan

\* every ordering of the rows at positions idx by descending key: the default
\* sort kind ("quicksort") gives no order among equal keys
RECURSIVE DescendingOrders(_, _)
DescendingOrders(key, idx) ==
  IF idx = {} THEN {<<>>}
  ELSE UNION {
         {<<i>> \o rest : rest \in DescendingOrders(key, idx \ {i})} :
         i \in {j \in idx : \A k \in idx : key[j] >= key[k]}}

\* Series.value_counts().rename_axis("WORK").reset_index(name="COUNT"):
\* one row per distinct non-missing value, by descending count
value_counts(column) ==
  LET values   == {column[i] : i \in {j \in DOMAIN column : column[j].t # "nan"}}
      count(v) == Cardinality({i \in DOMAIN column : column[i] = v})
      entries  == {[WORK |-> v, COUNT |-> IntCell(count(v))] : v \in values}
      n        == Cardinality(entries)
      listings == {f \in [1..n -> entries] : \A a, b \in 1..n : a # b => f[a] # f[b]}
  IN  {DataFrame(<<"WORK", "COUNT">>, f) :
         f \in {g \in listings : \A a, b \in 1..n : a < b => g[a].COUNT.n >= g[b].COUNT.n}}

\* the row filter: df["POSTAL"].astype(str).str.startswith(postal_prefix)
PostalMatches_equal(cell, postal_prefix) == AsTypeStr(cell) = postal_prefix
PostalMatches(cell, postal_prefix) == StartsWith(AsTypeStr(cell), postal_prefix)

\* fetch_permit_summary(postal_prefix, rows) on the remote CSV: the set of
\* DataFrames it can return
fetch_permit_summary(csv, postal_prefix, rows) ==
  LET df   == read_csv(csv, rows, {}).df
      kept == Take(df.rows, {i \in DOMAIN df.rows :
                               PostalMatches(df.rows[i]["POSTAL"], postal_prefix)})
  IN  value_counts([i \in DOMAIN kept |-> kept[i]["WORK"]])


-----------------------------------------------------------------------------
(* scraper.py: fetch_crime_data                                            *)

\* a feature of the service: the row-th record, in OCC_DATE DESC order, of
\* the data the service holds during run r
Feature(r, row) == [run |-> r, row |-> row]

\* the `features` of a response of n rows to a request at resultOffset off
Page(r, off, n) == [k \in 1..n |-> Feature(r, off + k)]

\* the for loop over feats: iteration i runs if it is the first or iteration
\* i - 1 left len(records) below max_records; every iteration appends one
\* record
ForLoop(recs, feats, max) ==
  LET ran == {i \in 1..Len(feats) : i = 1 \/ Len(recs) + (i - 1) < max}
  IN  recs \o SubSeq(feats, 1, Cardinality(ran))

\* the test that leaves the while loop after a non-empty page
LeavesLoop_onlyCap(nfeats, nrecords, max) == nrecords >= max
LeavesLoop(nfeats, nrecords, max) == nfeats < per_page \/ nrecords >= max

\* where control goes when a page request fails: raise_for_status raises
\* and nothing in fetch_crime_data catches it
AfterFailedRequest_swallow == "convert"
AfterFailedRequest == "raised"

\* where main goes when fetch_crime_data raised: nothing catches it
AfterCrimeFetchRaised_continue == "permits"
AfterCrimeFetchRaised == "crashed"

NotReturned == [ok |-> FALSE, df |-> <<>>]

CallLocalsInit(m) ==
  /\ max_records' = m
  /\ records' = <<>>
  /\ offset' = 0
  /\ requests' = <<>>
  /\ sizes' = <<>>
  /\ status' = "none"
  /\ returned' = NotReturned
  /\ downloads' = 0
  /\ writes' = {}

\* main, up to the call fetch_crime_data(start_date)
StartMain ==
  /\ pc = "idle"
  /\ run < MaxRuns
  /\ run' = run + 1
  /\ caller' = "main"
  /\ pc' = "loop"
  /\ CallLocalsInit(DefaultMaxRecords)
  /\ UNCHANGED <<fileVars, permitVars, digestVars>>

\* a call fetch_crime_data(start_date, neighbourhoods, m) from elsewhere
StartDirect(m) ==
  /\ pc = "idle"
  /\ run' = run
  /\ caller' = "direct"
  /\ pc' = "loop"
  /\ CallLocalsInit(m)
  /\ UNCHANGED <<fileVars, permitVars, digestVars>>

\* one pass of the while loop whose request succeeds with a page of n rows
PageOk(n) ==
  /\ pc = "loop"
  /\ n = per_page => Len(requests) + 1 < MaxPages
  /\ requests' = Append(requests, offset)
  /\ sizes' = Append(sizes, n)
  /\ status' = "ok"
  /\ LET feats == Page(run, offset, n)
         recs  == IF Len(feats) = 0 THEN records ELSE ForLoop(records, feats, max_records)
         leave == Len(feats) = 0 \/ LeavesLoop(Len(feats), Len(recs), max_records)
     IN  /\ records' = recs
         /\ pc' = IF leave THEN "convert" ELSE "loop"
         /\ offset' = IF leave THEN offset ELSE offset + per_page
  /\ UNCHANGED <<caller, run, max_records, returned, downloads, writes,
                 fileVars, permitVars, digestVars>>

\* one pass of the while loop whose request fails (transport error or
\* non-success status)
PageFails ==
  /\ pc = "loop"
  /\ requests' = Append(requests, offset)
  /\ status' = "error"
  /\ pc' = AfterFailedRequest
  /\ UNCHANGED <<caller, run, max_records, records, offset, sizes, returned,
                 downloads, writes, fileVars, permitVars, digestVars>>

\* after the loop: the DataFrame of the records is returned
ReturnFrame ==
  /\ pc = "convert"
  /\ returned' = [ok |-> TRUE, df |-> records]
  /\ pc' = "returned"
  /\ UNCHANGED <<caller, run, max_records, records, offset, requests, sizes,
                 status, downloads, writes, fileVars, permitVars, digestVars>>

\* the exception leaves fetch_crime_data and reaches main, where it ends
\* the process
Unwind ==
  /\ pc = "raised"
  /\ caller = "main"
  /\ pc' = AfterCrimeFetchRaised
  /\ UNCHANGED <<caller, run, max_records, records, offset, requests, sizes,
                 status, returned, downloads, writes, fileVars, permitVars,
                 digestVars>>

\* the direct caller takes the result or the exception; the call's locals
\* are gone
DirectDone ==
  /\ pc \in {"returned", "raised"}
  /\ caller = "direct"
  /\ pc' = "idle"
  /\ caller' = "none"
  /\ CallLocalsInit(DefaultMaxRecords)
  /\ UNCHANGED <<run, fileVars, permitVars, digestVars>>

CrimeColumns == <<"OCC_DATE", "OFFENCE", "MCI_CATEGORY", "NEIGHBOURHOOD_158", "DATE">>

\* main: crimes.csv is written unless the DataFrame is empty
MainSaveCrimes ==
  /\ pc = "returned"
  /\ caller = "main"
  /\ IF Len(returned.df) = 0
       THEN UNCHANGED <<crimesFile, writes>>
       ELSE /\ crimesFile' = [exists |-> TRUE, header |-> CrimeColumns, rows |-> returned.df]
            /\ writes' = writes \cup {"crimes.csv"}
  /\ pc' = "permits"
  /\ UNCHANGED <<caller, run, max_records, records, offset, requests, sizes,
                 status, returned, downloads, permitsFile, permitVars, digestVars>>

CsvRows   ==
  [POSTAL : {Txt_M9N2K5, Txt_M6H1A1, <<>>}, WORK : {Txt_Deck, Txt_Fence}]
    \cup {[POSTAL |-> Txt_M9N2K5, WORK |-> <<>>]}
CsvFiles(n) ==
  {[exists |-> TRUE, header |-> <<"POSTAL", "WORK">>, rows |-> r] : r \in SeqsUpTo(CsvRows, n)}

\* main: fetch_permit_summary() and save_dataframe(permits_summary, ...)
MainPermits(c) ==
  /\ pc = "permits"
  /\ downloads' = downloads + 1
  /\ \E s \in fetch_permit_summary(c, Txt_M9N, DefaultRows) :
       permitsFile' = to_csv(s)
  /\ writes' = writes \cup {"permit_summary.csv"}
  /\ pc' = "done"
  /\ UNCHANGED <<caller, run, max_records, records, offset, requests, sizes,
                 status, returned, crimesFile, permitVars, digestVars>>

\* main: the bulk download fails, read_csv raises, the process ends
MainPermitsFail ==
  /\ pc = "permits"
  /\ downloads' = downloads + 1
  /\ pc' = "crashed"
  /\ UNCHANGED <<caller, run, max_records, records, offset, requests, sizes,
                 status, returned, writes, fileVars, permitVars, digestVars>>

\* the scraper process has ended; the next run can start
Exit ==
  /\ pc \in {"done", "crashed"}
  /\ pc' = "idle"
  /\ caller' = "none"
  /\ CallLocalsInit(DefaultMaxRecords)
  /\ UNCHANGED <<run, fileVars, permitVars, digestVars>>

InitPermitVars ==
  /\ remote_csv = None
  /\ arg_prefix = None
  /\ arg_rows = None
  /\ summary = None

NothingSaved == [name |-> "none", df |-> DataFrame(<<>>, <<>>)]

InitDigestVars ==
  /\ dpc = "idle"
  /\ saved = NothingSaved
  /\ crimes = None
  /\ permits = None
  /\ top_n = None
  /\ top_permits = None
  /\ today = None
  /\ bundle = None

InitScraperVars ==
  /\ pc = "idle"
  /\ caller = "none"
  /\ run = 0
  /\ max_records = DefaultMaxRecords
  /\ records = <<>>
  /\ offset = 0
  /\ requests = <<>>
  /\ sizes = <<>>
  /\ status = "none"
  /\ returned = NotReturned
  /\ downloads = 0
  /\ writes = {}

Init ==
  /\ InitScraperVars
  /\ crimesFile = NoFile
  /\ permitsFile = NoFile
  /\ InitPermitVars
  /\ InitDigestVars

\* scraper runs
Next ==
  \/ StartMain
  \/ \E n \in RunPageSizes : PageOk(n)
  \/ PageFails
  \/ ReturnFrame
  \/ Unwind
  \/ MainSaveCrimes
  \/ \E c \in CsvFiles(MaxRunCsvRows) : MainPermits(c)
  \/ MainPermitsFail
  \/ Exit

Spec == Init /\ [][Next]_vars

\* calls of fetch_crime_data with every max_records
NextFetch ==
  \/ \E m \in MaxRecordsArgs : StartDirect(m)
  \/ \E n \in PageSizes : PageOk(n)
  \/ PageFails
  \/ ReturnFrame
  \/ DirectDone

SpecFetch == Init /\ [][NextFetch]_vars


-----------------------------------------------------------------------------
(* scraper.py: fetch_permit_summary called with every prefix and row cap   *)

PrefixArgs == {Txt_M9N, <<"n", "a">>}
RowsArgs   == {0, 2, DefaultRows}

CallFetchPermitSummary(c, p, r) ==
  /\ pc = "idle"
  /\ remote_csv' = c
  /\ arg_prefix' = p
  /\ arg_rows' = r
  /\ summary' \in fetch_permit_summary(c, p, r)
  /\ pc' = "summary_returned"
  /\ UNCHANGED <<caller, run, max_records, records, offset, requests, sizes,
                 status, returned, downloads, writes, fileVars, digestVars>>

\* the caller takes the summary; the call's locals are gone
PermitSummaryDone ==
  /\ pc = "summary_returned"
  /\ pc' = "idle"
  /\ remote_csv' = None
  /\ arg_prefix' = None
  /\ arg_rows' = None
  /\ summary' = None
  /\ UNCHANGED <<caller, run, max_records, records, offset, requests, sizes,
                 status, returned, downloads, writes, fileVars, digestVars>>

NextPermits ==
  \/ \E c \in CsvFiles(MaxCsvRows), p \in PrefixArgs, r \in RowsArgs :
       CallFetchPermitSummary(c, p, r)
  \/ PermitSummaryDone

SpecPermits == Init /\ [][NextPermits]_vars

-----------------------------------------------------------------------------
(* generate_digest.py, and the scraper's conversion and save of the        *)
(* datasets it reads                                                       *)

\* fetch_crime_data, after the loop: DataFrame(records) with OCC_DATE
\* converted from epoch milliseconds and DATE derived, unless empty
crime_frame(recs) ==
  IF Len(recs) = 0 THEN DataFrame(<<>>, <<>>)
  ELSE DataFrame(CrimeColumns,
         [i \in DOMAIN recs |->
            [OCC_DATE          |-> DatetimeCell(recs[i].OCC_DATE),
             OFFENCE           |-> StrCell(recs[i].OFFENCE),
             MCI_CATEGORY      |-> StrCell(recs[i].MCI_CATEGORY),
             NEIGHBOURHOOD_158 |-> StrCell(recs[i].NEIGHBOURHOOD_158),
             DATE              |-> DateCell(TorontoDate(recs[i].OCC_DATE))]])

\* save_dataframe(df, filename): the file it leaves
save_dataframe(df) == to_csv(df)

\* load_data: the columns of crimes.csv parsed as dates
CrimeParseDates_none == {}
CrimeParseDates == {"OCC_DATE"}

\* load_data, crimes: the file if it exists, else the empty default
LoadCrimes_noDefault(file) == read_csv(file, Len(file.rows), CrimeParseDates)
LoadCrimes(file) ==
  IF file.exists THEN read_csv(file, Len(file.rows), CrimeParseDates)
  ELSE Returns(DataFrame(CrimeColumns, <<>>))

\* load_data, permits
LoadPermits(file) ==
  IF file.exists THEN read_csv(file, Len(file.rows), {})
  ELSE Returns(DataFrame(<<"WORK", "COUNT">>, <<>>))

\* summarise_crimes: crimes["MCI_CATEGORY"].value_counts().to_dict()
summarise_crimes(df) ==
  LET present == {i \in DOMAIN df.rows : df.rows[i]["MCI_CATEGORY"].t # "nan"}
  IN  [c \in {df.rows[i]["MCI_CATEGORY"].s : i \in present} |->
         Cardinality({i \in present : df.rows[i]["MCI_CATEGORY"].s = c})]

\* DataFrame.head(n)
head(seq, n) ==
  IF n >= 0 THEN head_rows(seq, n)
  ELSE IF Len(seq) + n <= 0 THEN <<>> ELSE SubSeq(seq, 1, Len(seq) + n)

\* summarise_permits(permits, top_n): the set of lists it can return
summarise_permits(df, n) ==
  IF Empty(df) THEN {<<>>}
  ELSE LET key == [i \in DOMAIN df.rows |-> df.rows[i]["COUNT"].n]
       IN  {LET top == head([k \in DOMAIN order |-> df.rows[order[k]]], n)
            IN  [k \in DOMAIN top |-> [WORK |-> top[k]["WORK"], COUNT |-> top[k]["COUNT"].n]] :
              order \in DescendingOrders(key, DOMAIN df.rows)}

RECURSIVE SumCounts(_)
SumCounts(entries) ==
  IF Len(entries) = 0 THEN 0
  ELSE entries[1]["COUNT"].n + SumCounts(Tail(entries))

\* the sum of the top_n largest counts
RECURSIVE SumLargest(_, _, _)
SumLargest(key, idx, n) ==
  IF idx = {} \/ n <= 0 THEN 0
  ELSE LET m == CHOOSE j \in idx : \A k \in idx : key[j] >= key[k]
       IN  key[m] + SumLargest(key, idx \ {m}, n - 1)

\* main: permits_total
permits_total_ofTop(df) ==
  IF Empty(df) THEN 0
  ELSE SumLargest([i \in DOMAIN df.rows |-> df.rows[i]["COUNT"].n], DOMAIN df.rows, DefaultTopN)
permits_total(df) == IF Empty(df) THEN 0 ELSE SumCounts(df.rows)

\* the order Python gives the characters of a date text
DateChars == <<"-", "0", "1", "2", "3", "4", "5", "6", "7", "8", "9">>
CharCode(c) == CHOOSE k \in DOMAIN DateChars : DateChars[k] = c

RECURSIVE TextLess(_, _)
TextLess(a, b) ==
  IF Len(b) = 0 THEN FALSE
  ELSE IF Len(a) = 0 THEN TRUE
  ELSE IF a[1] = b[1] THEN TextLess(Tail(a), Tail(b))
  ELSE CharCode(a[1]) < CharCode(b[1])

\* the order of two cells of a DATE column: dates by day, text by characters
CellLessEq(a, b) ==
  IF a.t = "str" THEN ~TextLess(b.s, a.s) ELSE a.n <= b.n

ColumnMin(df, c) ==
  LET i == CHOOSE i \in DOMAIN df.rows : \A j \in DOMAIN df.rows : CellLessEq(df.rows[i][c], df.rows[j][c])
  IN  df.rows[i][c]
ColumnMax(df, c) ==
  LET i == CHOOSE i \in DOMAIN df.rows : \A j \in DOMAIN df.rows : CellLessEq(df.rows[j][c], df.rows[i][c])
  IN  df.rows[i][c]

LookbackDays == 7

\* main: the week boundaries
start_date(df, t) == IF ~Empty(df) THEN ColumnMin(df, "DATE") ELSE DateCell(t - LookbackDays)
end_date(df, t)   == IF ~Empty(df) THEN ColumnMax(df, "DATE") ELSE DateCell(t)

(* Inputs *)
Entry(w, n)  == [WORK |-> StrCell(w), COUNT |-> IntCell(n)]
TiedEntries  == {Entry(Txt_Deck, 10), Entry(Txt_Fence, 7), Entry(Txt_Roof, 3), Entry(Txt_Fence, 10)}
PlainEntries == {Entry(Txt_Deck, 10), Entry(Txt_Roof, 3)}
ExampleSummary == <<Entry(Txt_Deck, 10), Entry(Txt_Fence, 7), Entry(Txt_Roof, 3)>>
PermitSummaries ==
  {DataFrame(<<"WORK", "COUNT">>, r) :
     r \in SeqsUpTo(TiedEntries, MaxTieEntries)
            \cup {ExampleSummary \o more : more \in SeqsUpTo(PlainEntries, MaxMoreEntries)}}

\* 1970-01-01 04:59:59 UTC (still 1969-12-31 in Toronto) and 1970-01-02 05:00:00 UTC
CrimeAttributes ==
  {[OCC_DATE |-> 17999000,  OFFENCE |-> Txt_Assault, MCI_CATEGORY |-> Txt_Assault,
    NEIGHBOURHOOD_158 |-> Txt_Weston],
   [OCC_DATE |-> 104400000, OFFENCE |-> Txt_Robbery, MCI_CATEGORY |-> Txt_Robbery,
    NEIGHBOURHOOD_158 |-> Txt_Weston]}
\* the service delivers records by descending OCC_DATE
CrimeRecordLists ==
  {r \in SeqsUpTo(CrimeAttributes, MaxEvents) :
     \A i, j \in DOMAIN r : i < j => r[i].OCC_DATE >= r[j].OCC_DATE}

Todays   == {10, 20}
TopNArgs == {0, 1, 2, DefaultTopN}

\* scraper main: the crime DataFrame is saved unless empty
SaveCrimeEvents(recs) ==
  /\ dpc = "idle"
  /\ LET df == crime_frame(recs)
     IN  IF Empty(df)
           THEN UNCHANGED <<crimesFile, saved>>
           ELSE /\ crimesFile' = save_dataframe(df)
                /\ saved' = [name |-> "crimes.csv", df |-> df]
  /\ UNCHANGED <<scraperVars, permitsFile, permitVars, dpc, crimes, permits,
                 top_n, top_permits, today, bundle>>

\* scraper main: the permit summary is saved
SavePermitSummary(df) ==
  /\ dpc = "idle"
  /\ permitsFile' = save_dataframe(df)
  /\ saved' = [name |-> "permit_summary.csv", df |-> df]
  /\ UNCHANGED <<scraperVars, crimesFile, permitVars, dpc, crimes, permits,
                 top_n, top_permits, today, bundle>>

\* load_data
LoadData ==
  /\ dpc = "idle"
  /\ LET c == LoadCrimes(crimesFile)
         p == LoadPermits(permitsFile)
     IN  IF c.raised # "none" \/ p.raised # "none"
           THEN /\ dpc' = "load_error"
                /\ UNCHANGED <<crimes, permits>>
           ELSE /\ dpc' = "loaded"
                /\ crimes' = c.df
                /\ permits' = p.df
  /\ UNCHANGED <<scraperVars, fileVars, permitVars, saved, top_n, top_permits,
                 today, bundle>>

\* main, after load_data: the report input bundle
MainBundle(t) ==
  /\ dpc = "loaded"
  /\ today' = t
  /\ top_n' = DefaultTopN
  /\ top_permits' \in summarise_permits(permits, DefaultTopN)
  /\ bundle' = [start_date    |-> start_date(crimes, t),
                end_date      |-> end_date(crimes, t),
                total_crimes  |-> Len(crimes.rows),
                crime_counts  |-> summarise_crimes(crimes),
                permits_total |-> permits_total(permits),
                top_permits   |-> top_permits']
  /\ dpc' = "rendered"
  /\ UNCHANGED <<scraperVars, fileVars, permitVars, saved, crimes, permits>>

\* summarise_permits(permits, n) called on the loaded summary
CallSummarisePermits(n) ==
  /\ dpc = "loaded"
  /\ top_n' = n
  /\ top_permits' \in summarise_permits(permits, n)
  /\ dpc' = "summarised"
  /\ UNCHANGED <<scraperVars, fileVars, permitVars, saved, crimes, permits,
                 today, bundle>>

\* the digest process has ended
DigestExit ==
  /\ dpc \in {"load_error", "rendered", "summarised"}
  /\ dpc' = "idle"
  /\ crimes' = None
  /\ permits' = None
  /\ top_n' = None
  /\ top_permits' = None
  /\ today' = None
  /\ bundle' = None
  /\ UNCHANGED <<scraperVars, fileVars, permitVars, saved>>

NextDigest ==
  \/ \E r \in CrimeRecordLists : SaveCrimeEvents(r)
  \/ \E df \in PermitSummaries : SavePermitSummary(df)
  \/ LoadData
  \/ \E n \in TopNArgs : CallSummarisePermits(n)
  \/ \E t \in Todays : MainBundle(t)
  \/ DigestExit

SpecDigest == Init /\ [][NextDigest]_vars

-----------------------------------------------------------------------------
(* Properties of fetch_crime_data and of scraper runs                      *)

\* C1: the sequence returned by fetch_crime_data has length at most
\* max_records, for every max_records (0 included) and every sequence of
\* server responses
C1_LengthAtMostMaxRecords ==
  returned.ok => Len(returned.df) <= max_records

\* C2: pagination stops at the first short page: the k-th request asks for
\* offset (k - 1) * 2000; another request is about to be issued only if every
\* page so far was full and fewer than max_records records are accumulated;
\* pages of sizes [2000, 2000, 500] with max_records above 4500 end the loop
\* after exactly the requests at offsets 0, 2000, 4000
C2_StopsAtShortPage ==
  /\ \A k \in DOMAIN requests : requests[k] = (k - 1) * per_page
  /\ (pc = "loop" /\ requests # <<>>) =>
       /\ \A k \in DOMAIN sizes : sizes[k] = per_page
       /\ Len(records) < max_records
  /\ (sizes = <<2000, 2000, 500>> /\ max_records > 4500) =>
       /\ pc # "loop"
       /\ requests = <<0, 2000, 4000>>

C2_Witness ==
  /\ pc = "returned"
  /\ max_records > 4500
  /\ sizes = <<2000, 2000, 500>>
  /\ requests = <<0, 2000, 4000>>
  /\ Len(returned.df) = 4500

\* C3: once a page request of the call has failed, the call has raised: it
\* returns nothing, and the run writes no crime snapshot, whatever pages were
\* fetched before
C3_FailureIsFatal ==
  status = "error" =>
    /\ pc \in {"raised", "crashed"}
    /\ ~returned.ok
    /\ "crimes.csv" \notin writes

C3_Witness ==
  /\ status = "error"
  /\ pc = "crashed"
  /\ Len(records) >= per_page

\* C4 as stated: a run whose crime fetch failed still attempts the permit
\* fetch and, if that succeeds, writes the permit summary snapshot
C4_PermitFetchStillAttempted ==
  (pc \in {"done", "crashed"} /\ status = "error") =>
    /\ downloads >= 1
    /\ pc = "done" => "permit_summary.csv" \in writes

\* C4 (amended): a failed crime fetch ends the run: the permit fetch is not
\* attempted and the run writes no snapshot
C4_CrimeFailureEndsRun ==
  status = "error" =>
    /\ pc \in {"raised", "crashed"}
    /\ downloads = 0
    /\ writes = {}

C4_Witness ==
  /\ status = "error"
  /\ pc = "crashed"
  /\ run = 2
  /\ permitsFile.exists

\* C5: when a scraper run completes, the crime snapshot holds exactly the
\* events that run fetched (none if it fetched none)
C5_SnapshotHoldsLatestRun ==
  pc = "done" => crimesFile.rows = returned.df


-----------------------------------------------------------------------------
(* Properties of fetch_permit_summary                                      *)

\* the postal field of a CSV line as the filter sees it: text, a missing
\* field reading "nan"
PostalAsString(text) == IF text \in NaTexts THEN Txt_nan ELSE text

\* the lines among the first arg_rows of the CSV whose postal field starts
\* with the prefix and whose work type is w
CountedLines(w) ==
  {i \in 1..Min(arg_rows, Len(remote_csv.rows)) :
     /\ StartsWith(PostalAsString(remote_csv.rows[i].POSTAL), arg_prefix)
     /\ remote_csv.rows[i].WORK = w}

\* C10: the summary has one entry per work type found among the first
\* row_cap lines whose postal field, as a string, starts with the prefix;
\* its count is the number of those lines, at least 1; lines with another
\* postal field or beyond row_cap are counted nowhere; entries are in
\* descending order of count
C10_CountsFilteredRows ==
  pc = "summary_returned" =>
    LET e == summary.rows IN
    /\ summary.columns = <<"WORK", "COUNT">>
    /\ \A i \in DOMAIN e :
         /\ e[i].WORK.t = "str"
         /\ e[i].COUNT.n = Cardinality(CountedLines(e[i].WORK.s))
         /\ e[i].COUNT.n >= 1
    /\ \A i, j \in DOMAIN e : i # j => e[i].WORK # e[j].WORK
    /\ \A w \in {Txt_Deck, Txt_Fence} :
         CountedLines(w) # {} => \E i \in DOMAIN e : e[i].WORK.s = w
    /\ \A i, j \in DOMAIN e : i < j => e[i].COUNT.n >= e[j].COUNT.n

C10_Witness ==
  /\ pc = "summary_returned"
  /\ arg_prefix = Txt_M9N
  /\ arg_rows = 2
  /\ Len(remote_csv.rows) = 3
  /\ remote_csv.rows[1] = [POSTAL |-> Txt_M9N2K5, WORK |-> Txt_Deck]
  /\ remote_csv.rows[2] = [POSTAL |-> Txt_M6H1A1, WORK |-> Txt_Fence]
  /\ remote_csv.rows[3] = [POSTAL |-> Txt_M9N2K5, WORK |-> Txt_Deck]
  /\ summary.rows = <<[WORK |-> StrCell(Txt_Deck), COUNT |-> IntCell(1)]>>


-----------------------------------------------------------------------------
(* Properties of the snapshot store and the digest                         *)

\* the sum of the COUNT fields of every line of a summary file
RECURSIVE FileTotal(_)
FileTotal(lines) ==
  IF Len(lines) = 0 THEN 0
  ELSE ParseInt(lines[1]["COUNT"]) + FileTotal(Tail(lines))

\* C6: the permits total of the report bundle is the sum of COUNT over all
\* entries of the permit summary, whatever summarise_permits keeps: 0 for an
\* empty or missing summary; and [(Deck,10),(Fence,7),(Roof,3)] with
\* top_n = 1 gives the single entry (Deck,10) while the total stays 20
C6_TotalCountsAllEntries ==
  /\ dpc = "rendered" =>
       /\ bundle.permits_total = FileTotal(permitsFile.rows)
       /\ Len(bundle.top_permits) <= DefaultTopN
       /\ Len(permitsFile.rows) = 0 => bundle.permits_total = 0
  /\ (dpc = "summarised" /\ permits.rows = ExampleSummary /\ top_n = 1) =>
       /\ top_permits = <<[WORK |-> StrCell(Txt_Deck), COUNT |-> 10]>>
       /\ permits_total(permits) = 20

C6_Witness ==
  /\ dpc = "rendered"
  /\ Len(permitsFile.rows) = 6
  /\ Len(bundle.top_permits) = DefaultTopN
  /\ bundle.permits_total = 36
  /\ \A k \in DOMAIN bundle.top_permits : bundle.top_permits[k].COUNT >= 3

\* the positions of the entries in stable descending order of count
StableRank(entries, i) ==
  Cardinality({j \in DOMAIN entries :
                 \/ entries[j]["COUNT"].n > entries[i]["COUNT"].n
                 \/ entries[j]["COUNT"].n = entries[i]["COUNT"].n /\ j <= i})

\* C7: summarise_permits returns at most top_n entries, by descending count,
\* entries of equal count in their input order: the k-th entry returned is
\* the entry of stable rank k; an empty input gives an empty list
C7_StableTopN ==
  dpc = "summarised" =>
    /\ Len(top_permits) <= top_n
    /\ Len(top_permits) = Min(top_n, Len(permits.rows))
    /\ \A k \in DOMAIN top_permits :
         \E i \in DOMAIN permits.rows :
           /\ StableRank(permits.rows, i) = k
           /\ top_permits[k] = [WORK  |-> permits.rows[i]["WORK"],
                                COUNT |-> permits.rows[i]["COUNT"].n]

\* C8: a missing snapshot is not an error.  Without crimes.csv, load_data
\* gives the empty event collection with the expected columns, and the bundle
\* has no crime counts, total_crimes 0 and the range [today - 7, today];
\* without permit_summary.csv the bundle has no top permits and total 0
C8_MissingSnapshotDefaults ==
  /\ dpc # "load_error"
  /\ (dpc = "loaded" /\ ~crimesFile.exists) =>
       crimes = DataFrame(CrimeColumns, <<>>)
  /\ (dpc = "loaded" /\ ~permitsFile.exists) =>
       permits = DataFrame(<<"WORK", "COUNT">>, <<>>)
  /\ (dpc = "rendered" /\ ~crimesFile.exists) =>
       /\ DOMAIN bundle.crime_counts = {}
       /\ bundle.total_crimes = 0
       /\ bundle.start_date = DateCell(today - 7)
       /\ bundle.end_date = DateCell(today)
  /\ (dpc = "rendered" /\ ~permitsFile.exists) =>
       /\ bundle.top_permits = <<>>
       /\ bundle.permits_total = 0

C8_Witness ==
  /\ dpc = "rendered"
  /\ ~crimesFile.exists
  /\ ~permitsFile.exists
  /\ bundle.start_date = DateCell(13)
  /\ bundle.end_date = DateCell(20)

\* C9 as stated: what load_data returns right after a save equals the
\* DataFrame saved, for either dataset
C9_RoundTripEqual ==
  dpc = "loaded" =>
    /\ saved.name = "crimes.csv" => crimes = saved.df
    /\ saved.name = "permit_summary.csv" => permits = saved.df

\* a crime DataFrame with every DATE replaced by its ISO text
DateAsText(df) ==
  DataFrame(df.columns,
    [i \in DOMAIN df.rows |->
       [c \in Range(df.columns) |->
          IF c = "DATE" THEN StrCell(DateIso(df.rows[i][c].n)) ELSE df.rows[i][c]]])

\* C9 (amended): the permit summary comes back equal; the crime events come
\* back with the same rows, order and columns and equal OCC_DATE, OFFENCE,
\* MCI_CATEGORY and NEIGHBOURHOOD_158, but DATE as the ISO text of the date
C9_RoundTripUpToDateText ==
  dpc = "loaded" =>
    /\ saved.name = "crimes.csv" => crimes = DateAsText(saved.df)
    /\ saved.name = "permit_summary.csv" => permits = saved.df

C9_Witness ==
  /\ dpc = "loaded"
  /\ saved.name = "crimes.csv"
  /\ Len(crimes.rows) = 2
  /\ crimes.rows[1]["OCC_DATE"] = DatetimeCell(104400000)
  /\ crimes.rows[2]["DATE"] = StrCell(<<"1", "9", "6", "9", "-", "1", "2", "-", "3", "1">>)
  /\ Len(permits.rows) = 3


====
